---- MODULE Spec2Model ----
(***************************************************************************)
(* Model of the Bencode decoder of src/src/lib.rs.                         *)
(*                                                                         *)
(* A buffer is a sequence of bytes, each written as a one-character        *)
(* string.  A slice &[u8] handed to a rule is always a suffix of the       *)
(* buffer, so it is modelled by its offset into the buffer; a rule is an   *)
(* operator of the buffer and the offset it starts at.  The result of a    *)
(* rule is a record                                                        *)
(*    kind  "Ok", "Error" (nom::Err::Error), "Failure" (nom::Err::Failure) *)
(*    next  the offset of the remaining input (Ok)                         *)
(*    val   the produced value (Ok)                                        *)
(*    err   the BencodeError (Error, Failure)                              *)
(*    log   the errors the rules raised for an invalid token and the       *)
(*          no-progress checks of many0 / many_till that fired while the   *)
(*          rule ran, in order (an observation of the run, not data of the *)
(*          program)                                                       *)
(***************************************************************************)
EXTENDS Integers, Sequences, FiniteSets, TLC

VARIABLES input, pc, rule, result

vars == <<input, pc, rule, result>>

(***************************************************************************)
(* Bounds of the model.                                                    *)
(***************************************************************************)
MaxLen == 3
MaxTokens == 4
MaxDigits == 3
MaxPayload == 3

(***************************************************************************)
(* Bytes.                                                                  *)
(***************************************************************************)
Digits == {"0", "1", "2", "3", "4", "5", "6", "7", "8", "9"}

DigitOf == [c \in Digits |->
              CASE c = "0" -> 0 [] c = "1" -> 1 [] c = "2" -> 2 [] c = "3" -> 3
                [] c = "4" -> 4 [] c = "5" -> 5 [] c = "6" -> 6 [] c = "7" -> 7
                [] c = "8" -> 8 [] c = "9" -> 9]

(***************************************************************************)
(* Errors and results.                                                     *)
(***************************************************************************)
NoErr == [tag |-> "None", at |-> 0, code |-> ""]
NoVal == [type |-> "None"]

\* BencodeError::Nom(input, kind), built by ParseError::from_error_kind.
from_error_kind(at, kind) == [tag |-> "Nom", at |-> at, code |-> kind]

\* ParseError::append keeps the inner error.
append(at, kind, other) == other

\* ParseError::or is not overridden: nom's default keeps the later error.
or(self, other) == other

InvalidInteger(at) == [tag |-> "InvalidInteger", at |-> at, code |-> ""]
ParseIntError(at, e) == [tag |-> "ParseIntError", at |-> at, code |-> e]
InvalidBytesLength(at) == [tag |-> "InvalidBytesLength", at |-> at, code |-> ""]

Ok(next, val) ==
  [kind |-> "Ok", next |-> next, val |-> val, err |-> NoErr, log |-> <<>>]

Error(e) ==
  [kind |-> "Error", next |-> e.at, val |-> NoVal, err |-> e, log |-> <<>>]

Failure(e) ==
  [kind |-> "Failure", next |-> e.at, val |-> NoVal, err |-> e, log |-> <<>>]

\* The result r of a rule that found its token invalid, with the error
\* entered in the log at the place it is raised.
Raise(r) == [r EXCEPT !.log = <<r.err>>]

\* A conversion that makes every error recoverable.
FromBencodeError_recoverable(e) == Error(e)

\* impl From<BencodeError<I>> for nom::Err<BencodeError<I>>.
FromBencodeError(e) == IF e.tag = "Nom" THEN Error(e) ELSE Failure(e)

\* The result r of a step that ran after the events of `before` were logged.
After(before, r) == [r EXCEPT !.log = before \o r.log]

IsFatal(e) == e.tag \in {"InvalidInteger", "ParseIntError", "InvalidBytesLength"}
IsStall(e) == e.tag = "Nom" /\ e.code \in {"Many0", "ManyTill"}

(***************************************************************************)
(* Values.                                                                 *)
(***************************************************************************)
\* Value::Bytes(&input[at .. at + len]): a view into the buffer.
Bytes(in, at, len) ==
  [type |-> "Bytes", at |-> at, bytes |-> SubSeq(in, at + 1, at + len)]

\* Value::Integer(i64); the number is kept as sign and decimal magnitude
\* (most significant digit first, no leading zero, zero is the empty
\* magnitude), since the 64-bit range matters.
Integer(neg, mag) == [type |-> "Integer", neg |-> neg /\ mag # <<>>, mag |-> mag]

List(items) == [type |-> "List", items |-> items]

Dictionary(map) == [type |-> "Dictionary", map |-> map]

\* The slice recognize / digit1 return: input[from .. to].
Span(from, to) == [type |-> "Span", from |-> from, to |-> to]

Text(in, span) == SubSeq(in, span.from + 1, span.to)

(***************************************************************************)
(* Decimal numbers of the width of i64 and u64.                            *)
(***************************************************************************)
I64_MAX == <<9,2,2,3,3,7,2,0,3,6,8,5,4,7,7,5,8,0,7>>
I64_MIN == <<9,2,2,3,3,7,2,0,3,6,8,5,4,7,7,5,8,0,8>>
U64_MAX == <<1,8,4,4,6,7,4,4,0,7,3,7,0,9,5,5,1,6,1,5>>

RECURSIVE LexGreater(_, _, _)
LexGreater(a, b, k) ==
  IF k > Len(a) THEN FALSE
  ELSE IF a[k] # b[k] THEN a[k] > b[k]
  ELSE LexGreater(a, b, k + 1)

\* a > b for magnitudes.
Exceeds(a, b) ==
  \/ Len(a) > Len(b)
  \/ Len(a) = Len(b) /\ LexGreater(a, b, 1)

\* acc * 10 + d.
Mul10Add(acc, d) == IF acc = <<>> /\ d = 0 THEN <<>> ELSE Append(acc, d)

\* The loop of from_str_radix: checked_mul(10) then checked_add / checked_sub
\* of the digit, failing as soon as the magnitude leaves the type's range.
RECURSIVE Accumulate(_, _, _, _)
Accumulate(text, k, acc, limit) ==
  IF k > Len(text) THEN [ok |-> TRUE, mag |-> acc]
  ELSE LET m == Mul10Add(acc, DigitOf[text[k]])
       IN  IF Exceeds(m, limit) THEN [ok |-> FALSE, mag |-> <<>>]
           ELSE Accumulate(text, k + 1, m, limit)

\* A conversion that reads the magnitude and drops the sign.
parse_i64_unsigned(text) ==
  LET digits == IF text[1] \in {"+", "-"} THEN Tail(text) ELSE text
      r == Accumulate(digits, 1, <<>>, I64_MAX)
  IN  IF r.ok THEN [ok |-> TRUE, neg |-> FALSE, mag |-> r.mag, e |-> ""]
      ELSE [ok |-> FALSE, neg |-> FALSE, mag |-> <<>>, e |-> "PosOverflow"]

\* str::parse::<i64>() on a text of an optional sign and digits.
parse_i64(text) ==
  LET neg == text[1] = "-"
      digits == IF text[1] \in {"+", "-"} THEN Tail(text) ELSE text
      r == Accumulate(digits, 1, <<>>, IF neg THEN I64_MIN ELSE I64_MAX)
  IN  IF digits = <<>> THEN [ok |-> FALSE, neg |-> FALSE, mag |-> <<>>, e |-> "InvalidDigit"]
      ELSE IF r.ok THEN [ok |-> TRUE, neg |-> neg, mag |-> r.mag, e |-> ""]
      ELSE [ok |-> FALSE, neg |-> FALSE, mag |-> <<>>,
            e |-> IF neg THEN "NegOverflow" ELSE "PosOverflow"]

\* str::parse::<u64>() on a text of digits.
parse_u64(text) ==
  LET r == Accumulate(text, 1, <<>>, U64_MAX)
  IN  IF r.ok THEN [ok |-> TRUE, mag |-> r.mag, e |-> ""]
      ELSE [ok |-> FALSE, mag |-> <<>>, e |-> "PosOverflow"]

RECURSIVE MagToNat(_, _, _)
MagToNat(mag, k, acc) ==
  IF k > Len(mag) THEN acc ELSE MagToNat(mag, k + 1, acc * 10 + mag[k])

(***************************************************************************)
(* nom's parsers, as the rules use them.                                   *)
(***************************************************************************)
\* character::complete::char(c)
char(c, in, p) ==
  IF p < Len(in) /\ in[p + 1] = c THEN Ok(p + 1, NoVal)
  ELSE Error(from_error_kind(p, "Char"))

RECURSIVE DigitRun(_, _)
DigitRun(in, p) ==
  IF p < Len(in) /\ in[p + 1] \in Digits THEN 1 + DigitRun(in, p + 1) ELSE 0

\* character::complete::digit1
digit1(in, p) ==
  LET n == DigitRun(in, p)
  IN  IF n = 0 THEN Error(from_error_kind(p, "Digit"))
      ELSE Ok(p + n, Span(p, p + n))

\* A take that also consumes the byte after the payload.
take_one_more(length, in, p) ==
  IF Len(length) <= 9 /\ MagToNat(length, 1, 0) < Len(in) - p
  THEN Ok(p + MagToNat(length, 1, 0) + 1, Bytes(in, p, MagToNat(length, 1, 0) + 1))
  ELSE Error(from_error_kind(p, "Eof"))

\* bytes::complete::take(length), length a u64 magnitude.  A buffer of the
\* model is shorter than 10^9 bytes, so a count of ten digits or more is
\* more than what is left.
take(length, in, p) ==
  IF Len(length) <= 9 /\ MagToNat(length, 1, 0) <= Len(in) - p
  THEN Ok(p + MagToNat(length, 1, 0), Bytes(in, p, MagToNat(length, 1, 0)))
  ELSE Error(from_error_kind(p, "Eof"))

\* combinator::eof
eof(in, p) ==
  IF p = Len(in) THEN Ok(p, NoVal) ELSE Error(from_error_kind(p, "Eof"))

\* recognize(pair(char(sign), digit1))
signed_digit1(sign, in, p) ==
  LET s == char(sign, in, p)
  IN  IF s.kind # "Ok" THEN s
      ELSE LET d == digit1(in, s.next)
           IN  IF d.kind # "Ok" THEN d ELSE Ok(d.next, Span(p, d.next))

\* alt((recognize(pair(char('+'), digit1)), recognize(pair(char('-'), digit1)), digit1))
alt_integer_text(in, p) ==
  LET a == signed_digit1("+", in, p)
      b == signed_digit1("-", in, p)
      c == digit1(in, p)
  IN  IF a.kind # "Error" THEN a
      ELSE IF b.kind # "Error" THEN b
      ELSE IF c.kind # "Error" THEN c
      ELSE Error(append(p, "Alt", or(or(a.err, b.err), c.err)))

StartsWith(s, prefix) ==
  Len(s) >= Len(prefix) /\ SubSeq(s, 1, Len(prefix)) = prefix

(***************************************************************************)
(* The integer rule.                                                       *)
(***************************************************************************)
\* An integer rule that returns the input it was given as the remaining
\* input.
parse_integer_no_advance(in, p) ==
  LET i == char("i", in, p)
  IN  IF i.kind # "Ok" THEN i
      ELSE
      LET t == alt_integer_text(in, i.next)
      IN  IF t.kind # "Ok" THEN t
          ELSE
          LET e == char("e", in, t.next)
          IN  IF e.kind # "Ok" THEN e
              ELSE
              LET next == e.next
                  str  == Text(in, t.val)
                  item == parse_i64(str)
              IN  IF StartsWith(str, <<"-", "0">>)
                     \/ (StartsWith(str, <<"0">>) /\ Len(str) > 1)
                  THEN Raise(Failure(InvalidInteger(p)))
                  ELSE IF ~item.ok
                  THEN Raise(FromBencodeError(ParseIntError(next, item.e)))
                  ELSE Ok(p, Integer(item.neg, item.mag))

parse_integer(in, p) ==
  LET i == char("i", in, p)
  IN  IF i.kind # "Ok" THEN i
      ELSE
      LET t == alt_integer_text(in, i.next)
      IN  IF t.kind # "Ok" THEN t
          ELSE
          LET e == char("e", in, t.next)
          IN  IF e.kind # "Ok" THEN e
              ELSE
              LET next == e.next
                  str  == Text(in, t.val)
                  item == parse_i64(str)
              IN  IF StartsWith(str, <<"-", "0">>)
                     \/ (StartsWith(str, <<"0">>) /\ Len(str) > 1)
                  THEN Raise(Failure(InvalidInteger(p)))
                  ELSE IF ~item.ok
                  THEN Raise(FromBencodeError(ParseIntError(next, item.e)))
                  ELSE Ok(next, Integer(item.neg, item.mag))

(***************************************************************************)
(* The byte-string rule.                                                   *)
(***************************************************************************)
\* A byte-string rule without the check of the length against zero.
parse_bytes_any_length(in, p) ==
  LET d == digit1(in, p)
  IN  IF d.kind # "Ok" THEN d
      ELSE
      LET c == char(":", in, d.next)
      IN  IF c.kind # "Ok" THEN c
          ELSE
          LET length == parse_u64(Text(in, d.val))
          IN  IF ~length.ok
              THEN Raise(FromBencodeError(ParseIntError(c.next, length.e)))
              ELSE take(length.mag, in, c.next)

parse_bytes(in, p) ==
  LET d == digit1(in, p)
  IN  IF d.kind # "Ok" THEN d
      ELSE
      LET c == char(":", in, d.next)
      IN  IF c.kind # "Ok" THEN c
          ELSE
          LET length == parse_u64(Text(in, d.val))
          IN  IF ~length.ok
              THEN Raise(FromBencodeError(ParseIntError(c.next, length.e)))
              ELSE IF length.mag = <<>>
              THEN Raise(FromBencodeError(InvalidBytesLength(c.next)))
              ELSE take(length.mag, in, c.next)

(***************************************************************************)
(* The dispatcher, the list rule and the dictionary rule.                  *)
(*                                                                         *)
(* A combinator is given the results of its parsers as arguments; an       *)
(* argument is evaluated only where the combinator reads it, which is      *)
(* where nom runs the parser.                                              *)
(***************************************************************************)
RECURSIVE alt_value(_, _)
RECURSIVE parse_list(_, _)
RECURSIVE parse_dict(_, _)
RECURSIVE many_till_list(_, _, _)
RECURSIVE many_till_dict(_, _, _)

\* The error of a no-progress check of many0 / many_till.
Stall(e) == Raise(Error(e))

\* An alt that reports the error of its first parser.
alt_first_error(p, a, b, c, d) ==
  IF a.kind # "Error" THEN a
  ELSE IF b.kind # "Error" THEN After(a.log, b)
  ELSE IF c.kind # "Error" THEN After(a.log \o b.log, c)
  ELSE IF d.kind # "Error" THEN After(a.log \o b.log \o c.log, d)
  ELSE After(a.log \o b.log \o c.log \o d.log, Error(append(p, "Alt", a.err)))

\* nom's alt of four parsers with the results a, b, c, d at offset p: the
\* first result that is not a recoverable error; when all four are, the
\* errors combined with `or` and passed to `append`.
alt(p, a, b, c, d) ==
  IF a.kind # "Error" THEN a
  ELSE IF b.kind # "Error" THEN After(a.log, b)
  ELSE IF c.kind # "Error" THEN After(a.log \o b.log, c)
  ELSE IF d.kind # "Error" THEN After(a.log \o b.log \o c.log, d)
  ELSE After(a.log \o b.log \o c.log \o d.log,
             Error(append(p, "Alt", or(or(or(a.err, b.err), c.err), d.err))))

\* alt((parse_bytes, parse_integer, parse_list, parse_dict))
alt_value(in, p) ==
  alt(p, parse_bytes(in, p), parse_integer(in, p), parse_list(in, p),
      parse_dict(in, p))

\* many_till, where the terminator did not match at offset i and the item
\* parser returned f.
many_till_list_item(in, i, res, f) ==
  IF f.kind = "Error" THEN After(f.log, Error(append(i, "ManyTill", f.err)))
  ELSE IF f.kind = "Failure" THEN f
  ELSE IF Len(in) - f.next = Len(in) - i
  THEN After(f.log, Stall(from_error_kind(f.next, "ManyTill")))
  ELSE After(f.log, many_till_list(in, f.next, Append(res, f.val)))

\* many_till(alt((..)), char('e')) from offset i with the items of res
\* collected so far.
many_till_list(in, i, res) ==
  LET g == char("e", in, i)
  IN  IF g.kind = "Ok" THEN Ok(g.next, List(res))
      ELSE IF g.kind = "Failure" THEN g
      ELSE many_till_list_item(in, i, res, alt_value(in, i))

parse_list(in, p) ==
  LET l == char("l", in, p)
  IN  IF l.kind # "Ok" THEN l ELSE many_till_list(in, l.next, <<>>)

\* pair, where the first parser returned k and the second v.
pair(k, v) ==
  IF k.kind # "Ok" THEN k
  ELSE IF v.kind # "Ok" THEN After(k.log, v)
  ELSE After(k.log \o v.log, Ok(v.next, <<k.val, v.val>>))

\* The parser of a value after the key parser returned k.
value_after(in, k) == IF k.kind = "Ok" THEN alt_value(in, k.next) ELSE k

pair_with_key(in, k) == pair(k, value_after(in, k))

\* pair(parse_bytes, alt((..)))
pair_key_value(in, p) == pair_with_key(in, parse_bytes(in, p))

\* An insert that keeps the value a key already has.
Insert_keep_first(map, key, value) ==
  [k \in DOMAIN map \cup {key} |-> IF k \in DOMAIN map THEN map[k] ELSE value]

\* HashMap::insert
Insert(map, key, value) ==
  [k \in DOMAIN map \cup {key} |-> IF k = key THEN value ELSE map[k]]

\* value.0.into_iter().map(..).collect(): the pairs inserted in order.
RECURSIVE Collect(_, _, _)
Collect(pairs, k, map) ==
  IF k > Len(pairs) THEN map
  ELSE Collect(pairs, k + 1, Insert(map, pairs[k][1].bytes, pairs[k][2]))

EmptyMap == [k \in {} |-> NoVal]

\* A dictionary body that ends, as many0 does, where no pair matches.
many_till_dict_lenient(in, i, res, f) ==
  IF f.kind = "Error"
  THEN After(f.log, Ok(i, Dictionary(Collect(res, 1, EmptyMap))))
  ELSE IF f.kind = "Failure" THEN f
  ELSE IF Len(in) - f.next = Len(in) - i
  THEN After(f.log, Stall(from_error_kind(f.next, "ManyTill")))
  ELSE After(f.log, many_till_dict(in, f.next, Append(res, f.val)))

\* many_till, where the terminator did not match at offset i and the pair
\* parser returned f.
many_till_dict_item(in, i, res, f) ==
  IF f.kind = "Error" THEN After(f.log, Error(append(i, "ManyTill", f.err)))
  ELSE IF f.kind = "Failure" THEN f
  ELSE IF Len(in) - f.next = Len(in) - i
  THEN After(f.log, Stall(from_error_kind(f.next, "ManyTill")))
  ELSE After(f.log, many_till_dict(in, f.next, Append(res, f.val)))

\* many_till(pair(..), char('e')) from offset i with the pairs of res
\* collected so far.
many_till_dict(in, i, res) ==
  LET g == char("e", in, i)
  IN  IF g.kind = "Ok" THEN Ok(g.next, Dictionary(Collect(res, 1, EmptyMap)))
      ELSE IF g.kind = "Failure" THEN g
      ELSE many_till_dict_item(in, i, res, pair_key_value(in, i))

parse_dict(in, p) ==
  LET d == char("d", in, p)
  IN  IF d.kind # "Ok" THEN d ELSE many_till_dict(in, d.next, <<>>)

(***************************************************************************)
(* The top-level driver.                                                   *)
(***************************************************************************)
Vec(items) == [type |-> "Vec", items |-> items]

RECURSIVE many0_value(_, _, _)

\* many0, where the parser returned f at offset i.
many0_item(in, i, acc, f) ==
  IF f.kind = "Error" THEN After(f.log, Ok(i, Vec(acc)))
  ELSE IF f.kind = "Failure" THEN f
  ELSE IF Len(in) - f.next = Len(in) - i
  THEN After(f.log, Stall(from_error_kind(i, "Many0")))
  ELSE After(f.log, many0_value(in, f.next, Append(acc, f.val)))

\* many0(alt((..))) from offset i with the values of acc collected so far.
many0_value(in, i, acc) == many0_item(in, i, acc, alt_value(in, i))

\* A driver that does not require the end of the buffer.
parse_without_eof(in, m) ==
  IF m.kind # "Ok" THEN m ELSE After(m.log, Ok(m.next, m.val))

\* Value::parse after many0 returned m; m.next is the cursor eof is given.
parse_eof(in, m) ==
  IF m.kind # "Ok" THEN m
  ELSE IF eof(in, m.next).kind # "Ok" THEN After(m.log, eof(in, m.next))
  ELSE After(m.log, Ok(m.next, m.val))

\* Value::parse
parse(in) == parse_eof(in, many0_value(in, 0, <<>>))

(***************************************************************************)
(* The buffers the rules are applied to.                                   *)
(***************************************************************************)
Alphabet == {"i", "l", "d", "e", ":", "+", "-", "0", "1", "a"}

Strings(S, n) == UNION {[1..k -> S] : k \in 0..n}

RECURSIVE Concat(_)
Concat(ss) == IF ss = <<>> THEN <<>> ELSE Head(ss) \o Concat(Tail(ss))

\* Every buffer of at most MaxLen bytes of the alphabet.
RawInputs == Strings(Alphabet, MaxLen)

Tokens ==
  { <<"d">>, <<"l">>, <<"e">>,
    <<"i", "1", "e">>,
    <<"1", ":", "a">>,
    <<"1", ":", "a", "i", "1", "e">>,
    <<"1", ":", "a", "i", "2", "e">>,
    <<"1", ":", "b", "1", ":", "a">>,
    <<"0", ":">>,
    <<"i", "0", "0", "e">> }

\* Every buffer of at most MaxTokens tokens.
TokenInputs == {Concat(ts) : ts \in Strings(Tokens, MaxTokens)}

\* Integer literals, complete or not: i, sign, digits, tail.
IntegerInputs ==
  { <<"i">> \o s \o ds \o t :
      s \in {<<>>, <<"+">>, <<"-">>},
      ds \in Strings({"0", "1", "9"}, MaxDigits),
      t \in {<<>>, <<"e">>, <<"e", "e">>, <<"e", "1", ":", "a">>} }

\* Byte strings, complete or not: length, separator, payload.
BytesInputs ==
  { ds \o c \o pl :
      ds \in Strings({"0", "1", "2"}, MaxDigits),
      c \in {<<>>, <<":">>},
      pl \in Strings({"a", "e"}, MaxPayload) }

Lit(digits) == [k \in 1..Len(digits) |-> ToString(digits[k])]

\* Literals at the ends of the ranges of i64 and u64.
RangeInputs ==
  { <<"i">> \o Lit(I64_MAX) \o <<"e">>,
    <<"i">> \o Lit(I64_MIN) \o <<"e">>,
    <<"i", "+">> \o Lit(I64_MAX) \o <<"e", "e">>,
    <<"i", "-">> \o Lit(I64_MIN) \o <<"e", "1", ":", "a">>,
    <<"i", "-">> \o Lit(I64_MAX) \o <<"1", "e">>,
    <<"l", "i">> \o Lit(I64_MIN) \o <<"e", "e">>,
    <<"d", "1", ":", "a", "i">> \o Lit(I64_MAX) \o <<"0", "e", "e">>,
    Lit(U64_MAX) \o <<":", "a">>,
    Lit(U64_MAX) \o <<"0", ":", "a">>,
    Lit(<<1,8,4,4,6,7,4,4,0,7,3,7,0,9,5,5,1,6,1,6>>) \o <<":">>,
    <<"i", "1", "e", "l">> \o Lit(<<1,8,4,4,6,7,4,4,0,7,3,7,0,9,5,5,1,6,1,6>>) \o <<":", "a", "e">>,
    <<"d">> \o Lit(<<1,8,4,4,6,7,4,4,0,7,3,7,0,9,5,5,1,6,1,6>>) \o <<":", "a", "i", "1", "e", "e">> }

Inputs ==
  RawInputs \cup TokenInputs \cup IntegerInputs \cup BytesInputs \cup RangeInputs

(***************************************************************************)
(* The state machine: a buffer, and one application of a rule to it.       *)
(***************************************************************************)
NoResult ==
  [kind |-> "None", next |-> 0, val |-> NoVal, err |-> NoErr, log |-> <<>>]

Init ==
  /\ input \in Inputs
  /\ pc = "ready"
  /\ rule = "none"
  /\ result = NoResult

ParseInteger ==
  /\ pc = "ready"
  /\ pc' = "done"
  /\ rule' = "parse_integer"
  /\ result' = parse_integer(input, 0)
  /\ UNCHANGED input

ParseBytes ==
  /\ pc = "ready"
  /\ pc' = "done"
  /\ rule' = "parse_bytes"
  /\ result' = parse_bytes(input, 0)
  /\ UNCHANGED input

ParseList ==
  /\ pc = "ready"
  /\ pc' = "done"
  /\ rule' = "parse_list"
  /\ result' = parse_list(input, 0)
  /\ UNCHANGED input

ParseDict ==
  /\ pc = "ready"
  /\ pc' = "done"
  /\ rule' = "parse_dict"
  /\ result' = parse_dict(input, 0)
  /\ UNCHANGED input

Parse ==
  /\ pc = "ready"
  /\ pc' = "done"
  /\ rule' = "parse"
  /\ result' = parse(input)
  /\ UNCHANGED input

Next == ParseInteger \/ ParseBytes \/ ParseList \/ ParseDict \/ Parse

Spec == Init /\ [][Next]_vars

(***************************************************************************)
(* Properties.                                                             *)
(***************************************************************************)
Fatal(log) == SelectSeq(log, IsFatal)
Stalls(log) == SelectSeq(log, IsStall)

\* C1: Value::parse succeeds only when the repetition of the dispatcher has
\* stopped with the cursor at the end of the buffer, and then returns the
\* values of the repetition; when the repetition stops on a recoverable
\* failure with a byte left, the parse is an error at that cursor and
\* returns no values.
C1_ParseConsumesAll ==
  rule = "parse" =>
    LET m == many0_value(input, 0, <<>>)
    IN  /\ result.kind = "Ok" =>
             /\ result.next = Len(input)
             /\ m.kind = "Ok" /\ m.next = Len(input) /\ result.val = m.val
        /\ (m.kind = "Ok" /\ m.next < Len(input)) =>
             /\ result.kind = "Error"
             /\ result.err = from_error_kind(m.next, "Eof")
             /\ result.val = NoVal

\* A parse that decoded a value and then stopped before the end.
C1_Witness ==
  /\ rule = "parse"
  /\ result.kind = "Error"
  /\ result.err.code = "Eof"
  /\ 0 < result.err.at /\ result.err.at < Len(input)

\* C2: when a rule reached during Value::parse raises a fatal error
\* (InvalidInteger, ParseIntError, InvalidBytesLength), at any depth and
\* after any number of decoded values, the parse returns that error as a
\* Failure, with no values, and nothing is raised after it.
C2_FatalAborts ==
  rule = "parse" =>
    (Fatal(result.log) # <<>> =>
       /\ result.kind = "Failure"
       /\ result.err = Fatal(result.log)[1]
       /\ Len(Fatal(result.log)) = 1
       /\ result.val = NoVal)

\* A zero length raised in the value position of a dictionary.
C2_Witness ==
  /\ rule = "parse"
  /\ result.kind = "Failure"
  /\ result.err.tag = "InvalidBytesLength"
  /\ Len(input) >= 6 /\ input[1] = "d" /\ result.err.at >= 6

(***************************************************************************)
(* The shape of a literal, read off the buffer.                            *)
(***************************************************************************)
\* The index of the first byte c of the buffer, 0 when there is none.
FirstIndex(in, c) ==
  IF \E k \in 1..Len(in) : in[k] = c
  THEN CHOOSE k \in 1..Len(in) : in[k] = c /\ \A j \in 1..(k - 1) : in[j] # c
  ELSE 0

AllDigits(text) == text # <<>> /\ \A k \in 1..Len(text) : text[k] \in Digits

\* The magnitude a run of digits denotes.
RECURSIVE StripZeros(_)
StripZeros(ds) ==
  IF ds # <<>> /\ Head(ds) = 0 THEN StripZeros(Tail(ds)) ELSE ds

Denoted(text) == StripZeros([k \in 1..Len(text) |-> DigitOf[text[k]]])

\* The buffer as i <sign?> <digits> e <rest>.
IntText == SubSeq(input, 2, FirstIndex(input, "e") - 1)
IntSign == IF IntText # <<>> /\ IntText[1] \in {"+", "-"} THEN IntText[1] ELSE ""
IntDigits == IF IntSign = "" THEN IntText ELSE Tail(IntText)

IntComplete ==
  /\ Len(input) >= 3 /\ input[1] = "i"
  /\ FirstIndex(input, "e") > 0
  /\ AllDigits(IntDigits)

IntLeadingZero == IntDigits[1] = "0" /\ Len(IntDigits) > 1
IntNegativeZero == IntSign = "-" /\ Denoted(IntDigits) = <<>>
IntInRange ==
  ~Exceeds(Denoted(IntDigits), IF IntSign = "-" THEN I64_MIN ELSE I64_MAX)

\* The buffer as <length> : <payload and rest>.
LengthText == SubSeq(input, 1, FirstIndex(input, ":") - 1)
BytesDeclared == FirstIndex(input, ":") > 0 /\ AllDigits(LengthText)
Declared == Denoted(LengthText)
Available == Len(input) - FirstIndex(input, ":")
Enough == Len(Declared) <= 9 /\ MagToNat(Declared, 1, 0) <= Available

\* What the byte-string rule is to do with a declared length above zero.
BytesContract ==
  IF Enough
  THEN /\ result.kind = "Ok"
       /\ result.val.type = "Bytes"
       /\ result.val.at = FirstIndex(input, ":")
       /\ result.val.bytes =
            SubSeq(input, FirstIndex(input, ":") + 1,
                   FirstIndex(input, ":") + MagToNat(Declared, 1, 0))
       /\ result.next = FirstIndex(input, ":") + MagToNat(Declared, 1, 0)
  ELSE result.kind = "Error"

\* C3: for a canonical literal i<text>e of an integer of the i64 range (no
\* leading zero, no negative zero), whatever follows it, the integer rule
\* returns the integer the text denotes and the remaining input starts at
\* the byte after the e.
C3_IntegerRoundTrip ==
  (rule = "parse_integer" /\ IntComplete /\ ~IntLeadingZero /\ ~IntNegativeZero
     /\ IntInRange) =>
    /\ result.kind = "Ok"
    /\ result.val =
         [type |-> "Integer", neg |-> IntSign = "-", mag |-> Denoted(IntDigits)]
    /\ result.next = FirstIndex(input, "e")

\* A negative integer decoded with bytes left after its e.
C3_Witness ==
  /\ rule = "parse_integer"
  /\ result.kind = "Ok"
  /\ result.val.neg
  /\ result.next < Len(input)

\* C4: every literal the integer rule accepts has no leading zero and is not
\* a negative zero, and every complete literal with a leading zero or
\* denoting negative zero is rejected with the fatal InvalidInteger.
C4_AcceptedIsCanonical ==
  rule = "parse_integer" =>
    /\ result.kind = "Ok" => IntComplete /\ ~IntLeadingZero /\ ~IntNegativeZero
    /\ (IntComplete /\ (IntLeadingZero \/ IntNegativeZero)) =>
         result.kind = "Failure" /\ result.err = InvalidInteger(0)

\* C5, as stated: for every declared length above zero the byte-string rule
\* returns the view of that many bytes after the colon and the input after
\* them when they are there, and fails recoverably when they are not.
C5_EveryLength ==
  (rule = "parse_bytes" /\ BytesDeclared /\ Declared # <<>>) => BytesContract

\* C5, amended: the same for every declared length above zero that u64
\* holds.
C5_BytesExact ==
  (rule = "parse_bytes" /\ BytesDeclared /\ Declared # <<>>
     /\ ~Exceeds(Declared, U64_MAX)) => BytesContract

\* A byte string of two bytes decoded with bytes left after it.
C5_Witness ==
  /\ rule = "parse_bytes"
  /\ result.kind = "Ok"
  /\ Len(result.val.bytes) = 2
  /\ result.next < Len(input)

RECURSIVE NoEmptyBytes(_)
NoEmptyBytes(v) ==
  CASE v.type = "Bytes" -> v.bytes # <<>>
    [] v.type \in {"List", "Vec"} ->
         \A k \in 1..Len(v.items) : NoEmptyBytes(v.items[k])
    [] v.type = "Dictionary" ->
         /\ <<>> \notin DOMAIN v.map
         /\ \A k \in DOMAIN v.map : NoEmptyBytes(v.map[k])
    [] OTHER -> TRUE

\* C6: no decoded tree holds a byte string of length zero, as a value, a
\* list element or a dictionary key; a digit run of value zero followed by
\* a colon makes the byte-string rule fail with the fatal
\* InvalidBytesLength, whether or not bytes follow the colon.
C6_NoEmptyByteString ==
  /\ result.kind = "Ok" => NoEmptyBytes(result.val)
  /\ (rule = "parse_bytes" /\ BytesDeclared /\ Declared = <<>>) =>
       /\ result.kind = "Failure"
       /\ result.err = InvalidBytesLength(FirstIndex(input, ":"))

\* The length 00 rejected with bytes after the colon.
C6_Witness ==
  /\ rule = "parse_bytes"
  /\ result.kind = "Failure"
  /\ result.err.tag = "InvalidBytesLength"
  /\ result.err.at = 3 /\ Len(input) > 3

(***************************************************************************)
(* The positions the body of a list or a dictionary stands at.             *)
(***************************************************************************)
AtE(in, q) == q < Len(in) /\ in[q + 1] = "e"

\* The offsets the dictionary body stands at before a key or the
\* terminator: after the d, and after each complete pair.
RECURSIVE KeyPositions(_, _)
KeyPositions(in, q) ==
  {q} \cup
    IF ~AtE(in, q) /\ pair_key_value(in, q).kind = "Ok"
    THEN KeyPositions(in, pair_key_value(in, q).next)
    ELSE {}

\* The <<key, value>> pairs of the dictionary body, in the order of the input.
RECURSIVE DictPairs(_, _)
DictPairs(in, q) ==
  IF ~AtE(in, q) /\ pair_key_value(in, q).kind = "Ok"
  THEN <<pair_key_value(in, q).val>> \o DictPairs(in, pair_key_value(in, q).next)
  ELSE <<>>

\* The offsets the list body stands at before an item or the terminator.
RECURSIVE ItemPositions(_, _)
ItemPositions(in, q) ==
  {q} \cup
    IF ~AtE(in, q) /\ alt_value(in, q).kind = "Ok"
    THEN ItemPositions(in, alt_value(in, q).next)
    ELSE {}

\* The offsets at which the rule applied to the buffer calls the dispatcher
\* and returns its error: the items of a list, the values of a dictionary.
DispatchPositions ==
  IF rule = "parse_list" /\ Len(input) >= 1 /\ input[1] = "l"
  THEN {q \in ItemPositions(input, 1) : ~AtE(input, q)}
  ELSE IF rule = "parse_dict" /\ Len(input) >= 1 /\ input[1] = "d"
  THEN {parse_bytes(input, q).next :
          q \in {k \in KeyPositions(input, 1) :
                   ~AtE(input, k) /\ parse_bytes(input, k).kind = "Ok"}}
  ELSE {}

AllFailRecoverably(in, q) ==
  /\ parse_bytes(in, q).kind = "Error"
  /\ parse_integer(in, q).kind = "Error"
  /\ parse_list(in, q).kind = "Error"
  /\ parse_dict(in, q).kind = "Error"

\* C7: in the dictionary rule, after the d and after each complete pair, a
\* position that holds neither e nor a digit (an integer, list or
\* dictionary token, a colon without a length, the end of the buffer)
\* makes the rule fail with a recoverable Nom error.
C7_BadKeyRecoverable ==
  (rule = "parse_dict" /\ Len(input) >= 1 /\ input[1] = "d") =>
    \A q \in KeyPositions(input, 1) :
      (q = Len(input) \/ input[q + 1] \notin Digits \cup {"e"}) =>
        /\ result.kind = "Error"
        /\ result.err.tag = "Nom"
        /\ result.val = NoVal

\* An integer token in key position after a complete pair.
C7_Witness ==
  /\ rule = "parse_dict"
  /\ result.kind = "Error"
  /\ result.err.at > 1 /\ result.err.at < Len(input)
  /\ result.err.at \in KeyPositions(input, 1)
  /\ input[result.err.at + 1] = "i"

\* C8: the mapping of a decoded dictionary has exactly the keys that occur
\* in key position, and each key maps to the value of its last occurrence.
C8_LastWriteWins ==
  (rule = "parse_dict" /\ result.kind = "Ok") =>
    LET ps == DictPairs(input, 1)
        last(k) == CHOOSE i \in 1..Len(ps) :
                     /\ ps[i][1].bytes = k
                     /\ \A j \in (i + 1)..Len(ps) : ps[j][1].bytes # k
    IN  /\ result.val.type = "Dictionary"
        /\ DOMAIN result.val.map = {ps[i][1].bytes : i \in 1..Len(ps)}
        /\ \A k \in DOMAIN result.val.map : result.val.map[k] = ps[last(k)][2]

\* A dictionary decoded from a key given twice with two values.
C8_Witness ==
  /\ rule = "parse_dict"
  /\ result.kind = "Ok"
  /\ \E i, j \in 1..Len(DictPairs(input, 1)) :
       /\ i < j
       /\ DictPairs(input, 1)[i][1].bytes = DictPairs(input, 1)[j][1].bytes
       /\ DictPairs(input, 1)[i][2] # DictPairs(input, 1)[j][2]

\* C9, as stated: where all four rules fail recoverably at a value position,
\* the error reported is that of the first rule tried, the byte-string
\* rule.
C9_FirstRuleError ==
  \A q \in DispatchPositions :
    AllFailRecoverably(input, q) =>
      result.kind = "Error" /\ result.err = parse_bytes(input, q).err

\* C9, amended: where all four rules fail recoverably at a value position,
\* the error reported is that of the last rule tried, the dictionary rule.
C9_LastRuleError ==
  \A q \in DispatchPositions :
    AllFailRecoverably(input, q) =>
      result.kind = "Error" /\ result.err = parse_dict(input, q).err

\* A list whose item position fails all four rules, the byte-string rule
\* and the dictionary rule with different errors.
C9_Witness ==
  /\ rule = "parse_list"
  /\ \E q \in DispatchPositions :
       /\ AllFailRecoverably(input, q)
       /\ parse_bytes(input, q).err # parse_dict(input, q).err
       /\ parse_bytes(input, q).err.at # parse_dict(input, q).err.at

\* C10: a rule that succeeds returns a remaining input that is a strictly
\* shorter suffix of its input, no repetition (many0, the body of a list,
\* the body of a dictionary) ever finds an iteration without progress, and
\* no error comes from that check.
C10_Progress ==
  /\ Stalls(result.log) = <<>>
  /\ (rule \in {"parse_bytes", "parse_integer", "parse_list", "parse_dict"}
        /\ result.kind = "Ok") =>
       0 < result.next /\ result.next <= Len(input)
  /\ result.kind \in {"Error", "Failure"} =>
       result.err.code \notin {"Many0", "ManyTill"}

\* A parse of two values or more, one a dictionary with a pair.
C10_Witness ==
  /\ rule = "parse"
  /\ result.kind = "Ok"
  /\ Len(result.val.items) >= 2
  /\ \E k \in 1..Len(result.val.items) :
       /\ result.val.items[k].type = "Dictionary"
       /\ DOMAIN result.val.items[k].map # {}

====
